---- MODULE Spec2Model ----
(***************************************************************************)
(* A model of build_dataset.py: the screener query, the per-ticker         *)
(* fetch_metrics, the aggregation loop of main, the DataFrame filter and   *)
(* the two output writes.                                                  *)
(*                                                                         *)
(* The figures of the program are IEEE-754 binary64 values (numpy float64  *)
(* elements of pandas Series).  They are modelled bit-exactly: a float is  *)
(* a sign, a 53-bit mantissa and an exponent, and every arithmetic step    *)
(* rounds to nearest, ties to even, as the hardware does.  The mantissas   *)
(* exceed the integers of the model checker, so they are held as           *)
(* little-endian sequences of 15-bit limbs.                                *)
(***************************************************************************)
EXTENDS Integers, Sequences, FiniteSets, TLC

(***************************************************************************)
(* Natural numbers of any size: <<l1, ..., ln>> is l1 + l2*B + ..., with   *)
(* no zero limb on top; <<>> is zero.                                      *)
(***************************************************************************)
LimbBits == 15
B == 2^LimbBits

\* e, once v has been computed: the operands of a long computation are
\* evaluated before it, not inside it, which keeps the evaluation shallow
After(v, e) == IF v = v THEN e ELSE e

RECURSIVE BNorm(_)
BNorm(a) ==
    IF a = <<>> THEN <<>>
    ELSE IF a[Len(a)] = 0 THEN BNorm(SubSeq(a, 1, Len(a) - 1))
    ELSE a

RECURSIVE BFromNat(_)
BFromNat(n) == IF n = 0 THEN <<>> ELSE <<n % B>> \o BFromNat(n \div B)

BLimb(a, i) == IF i <= Len(a) THEN a[i] ELSE 0

RECURSIVE BCmpFrom(_, _, _)
BCmpFrom(a, b, i) ==
    IF i = 0 THEN 0
    ELSE IF a[i] < b[i] THEN -1
    ELSE IF a[i] > b[i] THEN 1
    ELSE BCmpFrom(a, b, i - 1)

\* -1, 0 or 1 as a < b, a = b, a > b
BCmp(a, b) ==
    IF Len(a) < Len(b) THEN -1
    ELSE IF Len(a) > Len(b) THEN 1
    ELSE BCmpFrom(a, b, Len(a))

RECURSIVE BAddFrom(_, _, _, _)
BAddFrom(a, b, i, carry) ==
    IF i > Len(a) /\ i > Len(b)
    THEN (IF carry = 0 THEN <<>> ELSE <<carry>>)
    ELSE LET s == BLimb(a, i) + BLimb(b, i) + carry
         IN  <<s % B>> \o BAddFrom(a, b, i + 1, s \div B)

BAdd(a, b) == BAddFrom(a, b, 1, 0)

RECURSIVE BSubFrom(_, _, _, _)
BSubFrom(a, b, i, borrow) ==
    IF i > Len(a) THEN <<>>
    ELSE LET d == a[i] - BLimb(b, i) - borrow
         IN  IF d < 0 THEN <<d + B>> \o BSubFrom(a, b, i + 1, 1)
             ELSE <<d>> \o BSubFrom(a, b, i + 1, 0)

\* a - b, for a >= b
BSub(a, b) == BNorm(BSubFrom(a, b, 1, 0))

RECURSIVE BMulSmallFrom(_, _, _, _)
BMulSmallFrom(a, k, i, carry) ==
    IF i > Len(a) THEN (IF carry = 0 THEN <<>> ELSE <<carry>>)
    ELSE LET p == a[i] * k + carry
         IN  <<p % B>> \o BMulSmallFrom(a, k, i + 1, p \div B)

\* a * k, for 0 <= k <= B
BMulSmall(a, k) == BNorm(BMulSmallFrom(a, k, 1, 0))

BShlLimbs(a, n) == IF a = <<>> THEN <<>> ELSE [i \in 1..n |-> 0] \o a

RECURSIVE BMulFrom(_, _, _)
BMulFrom(a, b, i) ==
    IF i > Len(b) THEN <<>>
    ELSE BAdd(BShlLimbs(BMulSmall(a, b[i]), i - 1), BMulFrom(a, b, i + 1))

BMul(a, b) == BMulFrom(a, b, 1)

\* a * 2^n
BShl(a, n) == BMulSmall(BShlLimbs(a, n \div LimbBits), 2^(n % LimbBits))

RECURSIVE BDivSmallFrom(_, _, _, _)
BDivSmallFrom(a, k, i, rem) ==
    IF i = 0 THEN <<>>
    ELSE LET cur == rem * B + a[i]
         IN  BDivSmallFrom(a, k, i - 1, cur % k) \o <<cur \div k>>

\* a \div k, for 1 <= k <= B
BDivSmall(a, k) == BNorm(BDivSmallFrom(a, k, Len(a), 0))

\* a \div 2^n
BShr(a, n) ==
    LET drop == n \div LimbBits
    IN  IF drop >= Len(a) THEN <<>>
        ELSE BDivSmall(SubSeq(a, drop + 1, Len(a)), 2^(n % LimbBits))

RECURSIVE NatBitLen(_)
NatBitLen(n) == IF n = 0 THEN 0 ELSE 1 + NatBitLen(n \div 2)

BBitLen(a) == IF a = <<>> THEN 0 ELSE (Len(a) - 1) * LimbBits + NatBitLen(a[Len(a)])

BOdd(a) == a # <<>> /\ a[1] % 2 = 1

BOne == <<1>>

\* One digit of a long division, for cur < d * B and a divisor whose top limb
\* has its top bit set: the quotient of the two top limbs by the divisor's
\* top limb is the digit or exceeds it by at most 2 (Knuth, 4.3.1, D).
\* (A value that is read more than once is handed on as an operator's
\* parameter, so that it is computed once.)
QDigit(cur, d) ==
    LET Fit(qhat) ==
            IF BCmp(BMulSmall(d, qhat), cur) <= 0 THEN qhat
            ELSE IF BCmp(BMulSmall(d, qhat - 1), cur) <= 0 THEN qhat - 1
            ELSE qhat - 2
        Capped(est) == Fit(IF est > B - 1 THEN B - 1 ELSE est)
    IN  Capped((BLimb(cur, Len(d) + 1) * B + BLimb(cur, Len(d))) \div d[Len(d)])

\* long division, a limb per step: <<quotient, remainder>> of limbs i.. of n
RECURSIVE BDivModTo(_, _, _)
BDivModTo(n, d, i) ==
    IF i > Len(n) THEN <<<<>>, <<>>>>
    ELSE LET Put(prev, cur, digit) ==
                 After(digit, <<BNorm(<<digit>> \o prev[1]),
                                BSub(cur, BMulSmall(d, digit))>>)
             Step(prev, cur) == After(cur, Put(prev, cur, QDigit(cur, d)))
             Bring(prev) == After(prev, Step(prev, BNorm(<<n[i]>> \o prev[2])))
         IN  Bring(BDivModTo(n, d, i + 1))

\* <<n \div d, n % d>>, for d # 0
BDivMod(n, d) ==
    LET Unshift(qr, s) == After(qr, <<qr[1], BShr(qr[2], s)>>)
        Shifted(s) == Unshift(BDivModTo(BShl(n, s), BShl(d, s), 1), s)
    IN  Shifted(LimbBits - NatBitLen(d[Len(d)]))

\* Newton's iteration from a guess >= sqrt(n): the first guess that the step
\* does not lower is the integer square root
RECURSIVE BSqrtIter(_, _)
BSqrtIter(n, guess) ==
    LET Try(next) == IF BCmp(next, guess) >= 0 THEN guess ELSE BSqrtIter(n, next)
        Mean(q) == After(q, Try(BShr(BAdd(guess, q), 1)))
    IN  Mean(BDivMod(n, guess)[1])

\* <<root, n - root^2>> with root the integer square root of n
BSqrtRem(n) ==
    LET Rest(root) == After(root, <<root, BSub(n, BMul(root, root))>>)
    IN  IF n = <<>> THEN <<<<>>, <<>>>>
        ELSE Rest(BSqrtIter(n, BShl(BOne, (BBitLen(n) + 1) \div 2)))

(***************************************************************************)
(* IEEE-754 binary64.  A finite non-zero float is (-1)^s * m * 2^e with    *)
(* 2^52 <= m < 2^53.  The exponents of the program's figures are far from  *)
(* the ends of the exponent range, so subnormals and overflow to infinity  *)
(* do not arise; the zero's sign, which no comparison reads, is dropped.   *)
(***************************************************************************)
MantBits == 53

FNaN  == [k |-> "nan",  s |-> 0, e |-> 0, m |-> <<>>]
FZero == [k |-> "zero", s |-> 0, e |-> 0, m |-> <<>>]
FInf(sign) == [k |-> "inf", s |-> sign, e |-> 0, m |-> <<>>]

\* the float nearest to (-1)^sign * (M + t) * 2^E, where 0 < t < 1 if sticky
\* and t = 0 otherwise; ties go to the even mantissa.  M # 0, and M has more
\* than MantBits bits whenever sticky.
RoundPack(sign, M, E, sticky) ==
    LET Pack(q, sh) ==
            IF BBitLen(q) > MantBits
            THEN [k |-> "num", s |-> sign, e |-> E + sh + 1, m |-> BShr(q, 1)]
            ELSE [k |-> "num", s |-> sign, e |-> E + sh, m |-> q]
        Round(q, sh, c) ==
            Pack(IF c > 0 \/ (c = 0 /\ (sticky \/ BOdd(q))) THEN BAdd(q, BOne) ELSE q, sh)
        Cut(q, sh) ==
            After(q, Round(q, sh, BCmp(BSub(M, BShl(q, sh)), BShl(BOne, sh - 1))))
        Sized(len) ==
            IF len <= MantBits
            THEN [k |-> "num", s |-> sign, e |-> E - (MantBits - len),
                  m |-> BShl(M, MantBits - len)]
            ELSE Cut(BShr(M, len - MantBits), len - MantBits)
    IN  Sized(BBitLen(M))

\* float(n) of a Python int
FromInt(n) ==
    IF n = 0 THEN FZero
    ELSE RoundPack(IF n < 0 THEN 1 ELSE 0, BFromNat(IF n < 0 THEN -n ELSE n), 0, FALSE)

FNeg(a) == IF a.k \in {"num", "inf"} THEN [a EXCEPT !.s = 1 - a.s] ELSE a

\* abs(a)
FAbs(a) == IF a.k \in {"num", "inf"} THEN [a EXCEPT !.s = 0] ELSE a

Xor(s, t) == IF s = t THEN 0 ELSE 1

\* a / b.  numpy does not raise on a zero divisor: it yields inf or nan.
FDiv(a, b) ==
    LET Quot(qr) ==
            After(qr, RoundPack(Xor(a.s, b.s), qr[1], a.e - b.e - (MantBits + 2),
                                qr[2] # <<>>))
    IN  IF a.k = "nan" \/ b.k = "nan" THEN FNaN
        ELSE IF a.k = "inf" THEN (IF b.k = "inf" THEN FNaN ELSE FInf(Xor(a.s, b.s)))
        ELSE IF b.k = "inf" THEN FZero
        ELSE IF b.k = "zero" THEN (IF a.k = "zero" THEN FNaN ELSE FInf(a.s))
        ELSE IF a.k = "zero" THEN FZero
        ELSE Quot(BDivMod(BShl(a.m, MantBits + 2), b.m))

\* a * b
FMul(a, b) ==
    LET Prod(p) == After(p, RoundPack(Xor(a.s, b.s), p, a.e + b.e, FALSE))
    IN  IF a.k = "nan" \/ b.k = "nan" THEN FNaN
        ELSE IF a.k = "inf" \/ b.k = "inf"
        THEN (IF a.k = "zero" \/ b.k = "zero" THEN FNaN ELSE FInf(Xor(a.s, b.s)))
        ELSE IF a.k = "zero" \/ b.k = "zero" THEN FZero
        ELSE Prod(BMul(a.m, b.m))

\* a + b
FAdd(a, b) ==
    LET Signed(Ma, Mb, E, c) ==
            IF a.s # b.s /\ c = 0 THEN FZero
            ELSE RoundPack(IF a.s = b.s \/ c > 0 THEN a.s ELSE b.s,
                           IF a.s = b.s THEN BAdd(Ma, Mb)
                           ELSE IF c > 0 THEN BSub(Ma, Mb)
                           ELSE BSub(Mb, Ma),
                           E, FALSE)
        Aligned(Ma, Mb, E) == After(<<Ma, Mb>>, Signed(Ma, Mb, E, BCmp(Ma, Mb)))
        Scaled(E) == Aligned(BShl(a.m, a.e - E), BShl(b.m, b.e - E), E)
    IN  IF a.k = "nan" \/ b.k = "nan" THEN FNaN
        ELSE IF a.k = "inf"
        THEN (IF b.k = "inf" /\ b.s # a.s THEN FNaN ELSE a)
        ELSE IF b.k = "inf" THEN b
        ELSE IF a.k = "zero" THEN b
        ELSE IF b.k = "zero" THEN a
        ELSE Scaled(IF a.e < b.e THEN a.e ELSE b.e)

\* a - b
FSub(a, b) == FAdd(a, FNeg(b))

\* a ** (1/2) of a numpy float64: the correctly rounded square root, and nan
\* (with a warning, not an exception) for a negative a
FSqrt(a) ==
    LET Root(sr, t) == After(sr, RoundPack(0, sr[1], (a.e - t) \div 2, sr[2] # <<>>))
        Even(t) == Root(BSqrtRem(BShl(a.m, t)), t)
    IN  IF a.k = "nan" THEN FNaN
        ELSE IF a.k = "zero" THEN FZero
        ELSE IF a.s = 1 THEN FNaN
        ELSE IF a.k = "inf" THEN a
        ELSE Even(IF (a.e - (MantBits + 3)) % 2 = 0 THEN MantBits + 3 ELSE MantBits + 4)

\* -1, 0, 1 as a < b, a = b, a > b, for a and b not nan
FCmp(a, b) ==
    LET mag(v) == IF v.k = "zero" THEN 0
                  ELSE IF v.s = 1 THEN -1 ELSE 1
        Order(ma, mb) ==
            IF ma # mb THEN (IF ma < mb THEN -1 ELSE 1)
            ELSE IF ma = 0 THEN 0
            ELSE IF a.k = "inf" /\ b.k = "inf" THEN 0
            ELSE IF a.k = "inf" THEN ma
            ELSE IF b.k = "inf" THEN -ma
            ELSE IF a.e # b.e THEN (IF a.e < b.e THEN -ma ELSE ma)
            ELSE ma * BCmp(a.m, b.m)
    IN  Order(mag(a), mag(b))

\* the comparisons of floats; every one is false when an operand is nan,
\* except !=, which is true
FLT(a, b) == a.k # "nan" /\ b.k # "nan" /\ FCmp(a, b) < 0
\* a variant of >= written as "not <", which a nan passes
FNotLT(a, b) == ~FLT(a, b)
\* a variant of <= that leaves the bound itself out
FStrictlyLess(a, b) == FLT(a, b)
FGT(a, b) == a.k # "nan" /\ b.k # "nan" /\ FCmp(a, b) > 0
FLE(a, b) == a.k # "nan" /\ b.k # "nan" /\ FCmp(a, b) <= 0
FGE(a, b) == a.k # "nan" /\ b.k # "nan" /\ FCmp(a, b) >= 0
FNE(a, b) == a.k = "nan" \/ b.k = "nan" \/ FCmp(a, b) # 0

(***************************************************************************)
(* The program.                                                            *)
(***************************************************************************)
MIN_SALES_CAGR == 20
MIN_MARKET_CAP == 100
MAX_MARKET_CAP == 100000

\* the literals of the program as floats
Million      == FromInt(1000000)
One          == FromInt(1)
Hundred      == FromInt(100)
MinSalesCagr == FromInt(MIN_SALES_CAGR)
MinMarketCap == FromInt(MIN_MARKET_CAP)
MaxMarketCap == FromInt(MAX_MARKET_CAP)
BreakEvenLow == FromInt(-20)

(***************************************************************************)
(* What the two services can answer.  The screener answers with a list of  *)
(* tickers or fails.  For a ticker, the data provider's handle may fail to *)
(* construct, a statement request may fail, and otherwise it answers with  *)
(* the annual statements (oldest year first; revenue and net income are    *)
(* columns of one table, so they cover the same years), the latest         *)
(* operating cash flow, debt and equity, and an info snapshot whose        *)
(* marketCap is a number, is absent, or is None.                           *)
(*                                                                         *)
(* An answer is written down in whole millions of dollars (the market cap  *)
(* in millions plus single dollars); the provider reports it in dollars,   *)
(* as floats.                                                              *)
(***************************************************************************)
MaxTickers == 2
Tickers == {"AAA", "BBB"}

RECURSIVE SeqsUpTo(_, _)
SeqsUpTo(S, len) ==
    IF len = 0 THEN {<<>>}
    ELSE LET Longer(shorter) ==
                 shorter \cup {Append(q, t) : q \in {u \in shorter : Len(u) = len - 1},
                                              t \in S}
         IN  Longer(SeqsUpTo(S, len - 1))

TickerLists == SeqsUpTo(Tickers, MaxTickers)

CapOf(millions, units) == [kind |-> "value", millions |-> millions, units |-> units]
CapMissing == [kind |-> "missing", millions |-> 0, units |-> 0]
CapNone    == [kind |-> "None", millions |-> 0, units |-> 0]

Raw(revs, nis, equity, cap) ==
    [ctor |-> "ok", err |-> "none", revs |-> revs, nis |-> nis,
     equity |-> equity, cap |-> cap]

BaseRev == <<100, 140, 196>>
BaseNi  == <<-10, -2, 5>>
BaseCap == CapOf(5000, 0)
Base    == Raw(BaseRev, BaseNi, 100, BaseCap)

\* growth below, at and of no meaning for the threshold
RevCases == {<<100, 110, 118>>, <<100, 120, 144>>, <<100, 169, 169>>,
             <<0, 50, 100>>, <<-10, 50, 100>>, <<100, 50, -10>>}
\* losses in and out of the break-even band, zero and equal-signed endpoints
NiCases  == {<<50, 40, -15>>, <<50, 40, -25>>, <<50, 40, -20>>, <<0, 1, 5>>,
             <<-10, 3, 0>>, <<-10, 7, 5>>, <<-5, 1, -20>>, <<-5, 1, -30>>,
             <<10, -20, 30>>}
\* market caps at, inside and just outside the two ends of the band
CapCases == {CapOf(100, 0), CapOf(99, 999999), CapOf(100000, 0), CapOf(100000, 1),
             CapOf(500000, 0), CapMissing}

RawAnswers ==
    {Base}
    \cup {[Base EXCEPT !.revs = revs] : revs \in RevCases}
    \cup {[Base EXCEPT !.nis = nis] : nis \in NiCases}
    \cup {[Base EXCEPT !.cap = cap] : cap \in CapCases}
    \cup {[Base EXCEPT !.equity = 0],
          [Base EXCEPT !.revs = <<50, 100, 140, 196>>, !.nis = <<-30, -10, -2, 5>>],
          [Base EXCEPT !.revs = <<140, 196>>, !.nis = <<-2, 5>>],
          [Base EXCEPT !.revs = <<>>, !.nis = <<>>],
          [Base EXCEPT !.cap = CapNone],
          [Base EXCEPT !.err = "HTTPError"],
          [Base EXCEPT !.revs = <<196>>, !.nis = <<5>>, !.err = "KeyError"],
          [Base EXCEPT !.ctor = "AttributeError", !.revs = <<>>, !.nis = <<>>]}

\* millions * 10^6 + units dollars
Dollars(millions, units) == FAdd(FMul(FromInt(millions), Million), FromInt(units))

\* what the provider's handle gives for an answer
Reported(raw) ==
    [ctor |-> raw.ctor,
     err  |-> raw.err,
     fin  |-> [j \in 1..Len(raw.revs) |->
                 [rev |-> Dollars(raw.revs[j], 0), ni |-> Dollars(raw.nis[j], 0)]],
     ocf  |-> Dollars(20, 0),
     debt |-> Dollars(50, 0),
     eq   |-> Dollars(raw.equity, 0),
     cap  |-> [kind |-> raw.cap.kind,
               v    |-> IF raw.cap.kind = "value"
                        THEN Dollars(raw.cap.millions, raw.cap.units)
                        ELSE FNaN]]

(***************************************************************************)
(* fetch_metrics                                                           *)
(***************************************************************************)
\* Series.tail(3)
Tail3(series) ==
    IF Len(series) <= 3 THEN series ELSE SubSeq(series, Len(series) - 2, Len(series))

\* ((last / first) ** (1/2) - 1) * 100
Growth(first, last) == FMul(FSub(FSqrt(FDiv(last, first)), One), Hundred)

\* ((rev[-1] / rev[0]) ** (1/2) - 1) * 100 if rev[0] > 0 else nan
RevCAGR(rev) == IF FGT(rev[1], FZero) THEN Growth(rev[1], rev[Len(rev)]) ELSE FNaN

\* ((abs(ni[-1]) / abs(ni[0])) ** (1/2) - 1) * 100 if ni[0] != 0 else nan
NICAGR(ni) ==
    IF FNE(ni[1], FZero) THEN Growth(FAbs(ni[1]), FAbs(ni[Len(ni)])) ELSE FNaN

\* a variant of SignChange that reads the last two years
SignChangeLatestYears(ni) == FLT(ni[Len(ni) - 1], FZero) /\ FGT(ni[Len(ni)], FZero)

\* (ni[0] < 0) and (ni[-1] > 0)
SignChange(ni) == FLT(ni[1], FZero) /\ FGT(ni[Len(ni)], FZero)

\* debt / eq if eq != 0 else nan
DebtEquity(debt, eq) == IF FNE(eq, FZero) THEN FDiv(debt, eq) ELSE FNaN

\* a variant of TooShort that lets two years through
TooShortBelow2(rev, ni) == Len(rev) < 2 \/ Len(ni) < 2

\* len(rev) < 3 or len(ni) < 3
TooShort(rev, ni) == Len(rev) < 3 \/ Len(ni) < 3

\* the three ways fetch_metrics ends: an exception leaves it, it returns
\* None (having printed or not), it returns a record
\* a variant of Skipped that prints nothing
SkippedQuietly(printed) == [kind |-> "None", exc |-> "", printed |-> <<>>, rec |-> <<>>]

Raised(name)     == [kind |-> "raise", exc |-> name, printed |-> <<>>, rec |-> <<>>]
Skipped(printed) == [kind |-> "None", exc |-> "", printed |-> printed, rec |-> <<>>]
Returned(rec)    == [kind |-> "record", exc |-> "", printed |-> <<>>, rec |-> rec]

\* The statement of the try block that fails, as the name of its exception,
\* or "none": a failed request, or None / 1e6 for a marketCap of None.
TryError(ans) ==
    IF ans.err # "none" THEN ans.err
    ELSE IF ans.cap.kind = "None" THEN "TypeError"
    ELSE "none"

fetch_metrics(ticker, ans) ==
    LET Record(rev, ni, ocf, debt, eq, mcap) ==
            IF TooShort(rev, ni) THEN Skipped(<<>>)
            \* .iloc[0], .iloc[1], .iloc[2] past the end of a Series: IndexError
            ELSE IF Len(rev) < 3 \/ Len(ni) < 3 THEN Raised("IndexError")
            ELSE Returned([Ticker         |-> ticker,
                           Rev_2022       |-> rev[1],
                           Rev_2023       |-> rev[2],
                           Rev_2024       |-> rev[3],
                           NI_2022        |-> ni[1],
                           NI_2023        |-> ni[2],
                           NI_2024        |-> ni[3],
                           OCF_2024       |-> ocf,
                           DebtEquity     |-> DebtEquity(debt, eq),
                           RevCAGR_3y     |-> RevCAGR(rev),
                           NICAGR_3y      |-> NICAGR(ni),
                           NI_sign_change |-> SignChange(ni),
                           MarketCap      |-> mcap])
        Scaled(last3) ==
            Record([j \in 1..Len(last3) |-> FDiv(last3[j].rev, Million)],
                   [j \in 1..Len(last3) |-> FDiv(last3[j].ni, Million)],
                   FDiv(ans.ocf, Million),
                   FDiv(ans.debt, Million),
                   FDiv(ans.eq, Million),
                   FDiv(ans.cap.v, Million))
    IN  IF ans.ctor # "ok" THEN Raised(ans.ctor)
        ELSE IF TryError(ans) # "none"
        THEN Skipped(<<<<"skip", ticker, TryError(ans)>>>>)
        ELSE Scaled(Tail3(ans.fin))

\* every call fetch_metrics can be asked to make, with what it gives
FetchCases ==
    {[ticker |-> t, raw |-> w, result |-> fetch_metrics(t, Reported(w))] :
        t \in Tickers, w \in RawAnswers}

(***************************************************************************)
(* main                                                                    *)
(***************************************************************************)
VARIABLES
    pc,       \* the statement main is at, "done" after it, "raised" if it died
    exc,      \* the function an uncaught exception came out of, "" if none
    tickers,  \* the list query_finviz returned
    pos,      \* the position of the loop in tickers
    rows,     \* the list of records
    df,       \* the filtered DataFrame, as the sequence of its rows
    stdout,   \* the lines printed
    csv,      \* high_growth_turnaround_us_stocks.csv
    xlsx,     \* high_growth_turnaround_us_stocks.xlsx
    calls     \* history: the calls of fetch_metrics made so far

vars == <<pc, exc, tickers, pos, rows, df, stdout, csv, xlsx, calls>>

NotWritten == [written |-> FALSE, table |-> <<>>]
Written(table) == [written |-> TRUE, table |-> table]

Init ==
    /\ pc = "query_finviz"
    /\ exc = ""
    /\ tickers = <<>>
    /\ pos = 1
    /\ rows = <<>>
    /\ df = <<>>
    /\ stdout = <<>>
    /\ csv = NotWritten
    /\ xlsx = NotWritten
    /\ calls = <<>>

\* tickers = query_finviz()
QueryFinviz ==
    /\ pc = "query_finviz"
    /\ \E list \in TickerLists : tickers' = list
    /\ pc' = "loop"
    /\ UNCHANGED <<exc, pos, rows, df, stdout, csv, xlsx, calls>>

\* a variant of QueryFinvizFails that swallows the failure and goes on with
\* a list of its own
QueryFinvizFailsGoesOn ==
    /\ pc = "query_finviz"
    /\ pc' = "loop"
    /\ exc' = "query_finviz"
    /\ tickers' = <<"AAA">>
    /\ UNCHANGED <<pos, rows, df, stdout, csv, xlsx, calls>>

\* the screener is unreachable or its answer has no Ticker column:
\* the exception leaves main
QueryFinvizFails ==
    /\ pc = "query_finviz"
    /\ pc' = "raised"
    /\ exc' = "query_finviz"
    /\ UNCHANGED <<tickers, pos, rows, df, stdout, csv, xlsx, calls>>

\* a variant of Collect that puts the record in front
CollectInFront(table, m) == IF m.kind = "record" THEN <<m.rec>> \o table ELSE table

\* if m: rows.append(m)
Collect(table, m) == IF m.kind = "record" THEN Append(table, m.rec) ELSE table

\* one turn of the loop: m = fetch_metrics(tk); if m: rows.append(m)
LoopBody ==
    /\ pc = "loop"
    /\ pos <= Len(tickers)
    /\ \E c \in FetchCases :
        /\ c.ticker = tickers[pos]
        /\ calls' = Append(calls, c)
        /\ stdout' = stdout \o c.result.printed
        /\ IF c.result.kind = "raise"
           THEN /\ pc' = "raised"
                /\ exc' = "fetch_metrics"
                /\ UNCHANGED <<pos, rows>>
           ELSE /\ pos' = pos + 1
                /\ rows' = Collect(rows, c.result)
                /\ UNCHANGED <<pc, exc>>
    /\ UNCHANGED <<tickers, df, csv, xlsx>>

\* a row's value of the boolean mask
Mask(r) ==
    /\ FGE(r.RevCAGR_3y, MinSalesCagr)
    /\ FGE(r.MarketCap, MinMarketCap)
    /\ FLE(r.MarketCap, MaxMarketCap)
    /\ \/ r.NI_sign_change
       \/ FGT(r.NI_2024, FZero)
       \/ (FGE(r.NI_2024, BreakEvenLow) /\ FLE(r.NI_2024, FZero))

\* df = pd.DataFrame(rows); df = df[mask].  A DataFrame of no records has no
\* columns, and selecting one raises KeyError.
Filter ==
    /\ pc = "loop"
    /\ pos > Len(tickers)
    /\ IF rows = <<>>
       THEN /\ pc' = "raised"
            /\ exc' = "main"
            /\ UNCHANGED df
       ELSE /\ df' = SelectSeq(rows, Mask)
            /\ pc' = "to_csv"
            /\ UNCHANGED exc
    /\ UNCHANGED <<tickers, pos, rows, stdout, csv, xlsx, calls>>

\* df.to_csv(...)
ToCsv ==
    /\ pc = "to_csv"
    /\ csv' = Written(df)
    /\ pc' = "to_excel"
    /\ UNCHANGED <<exc, tickers, pos, rows, df, stdout, xlsx, calls>>

\* the file cannot be written
ToCsvFails ==
    /\ pc = "to_csv"
    /\ pc' = "raised"
    /\ exc' = "to_csv"
    /\ UNCHANGED <<tickers, pos, rows, df, stdout, csv, xlsx, calls>>

\* df.to_excel(...)
ToExcel ==
    /\ pc = "to_excel"
    /\ xlsx' = Written(df)
    /\ pc' = "print"
    /\ UNCHANGED <<exc, tickers, pos, rows, df, stdout, csv, calls>>

\* the file cannot be written
ToExcelFails ==
    /\ pc = "to_excel"
    /\ pc' = "raised"
    /\ exc' = "to_excel"
    /\ UNCHANGED <<tickers, pos, rows, df, stdout, csv, xlsx, calls>>

\* print(f"Saved {len(df)} tickers on {TODAY}")
PrintSaved ==
    /\ pc = "print"
    /\ stdout' = Append(stdout, <<"Saved", Len(df)>>)
    /\ pc' = "done"
    /\ UNCHANGED <<exc, tickers, pos, rows, df, csv, xlsx, calls>>

Next ==
    \/ QueryFinviz
    \/ QueryFinvizFails
    \/ LoopBody
    \/ Filter
    \/ ToCsv
    \/ ToCsvFails
    \/ ToExcel
    \/ ToExcelFails
    \/ PrintSaved

Spec == Init /\ [][Next]_vars

(***************************************************************************)
(* Properties.  The figures of a call are read from its answer, in whole   *)
(* millions: y0 and y2 of a series are the first and the last of its last  *)
(* three years.                                                            *)
(***************************************************************************)

C2_FetchErrorsBecomeSkips ==
    /\ \A i \in 1..Len(calls) :
          (calls[i].raw.ctor # "ok" \/ calls[i].raw.err # "none")
             => calls[i].result.kind = "None"
    /\ ~(pc = "raised" /\ exc = "fetch_metrics")

C4_UndefinedCagrNeverKept ==
    /\ \A j \in 1..Len(df) : df[j].RevCAGR_3y.k # "nan"
    /\ \A j \in 1..Len(csv.table) : csv.table[j].RevCAGR_3y.k # "nan"
    /\ \A j \in 1..Len(xlsx.table) : xlsx.table[j].RevCAGR_3y.k # "nan"

\* the table is filtered; a record with an undefined revenue CAGR, a market
\* cap inside the band and the sign change was in the list, and is not kept
C4_Witness ==
    /\ pc = "to_csv"
    /\ Len(rows) = 1
    /\ rows[1].RevCAGR_3y.k = "nan"
    /\ rows[1].NI_sign_change
    /\ FGE(rows[1].MarketCap, MinMarketCap)
    /\ FLE(rows[1].MarketCap, MaxMarketCap)
    /\ df = <<>>

\* C5: once the list of tickers is there, nothing but a write of a file
\* raises: neither the loop nor the filter.
C5_RunReachesWrite ==
    pc = "raised" => exc \in {"query_finviz", "to_csv", "to_excel"}

\* C6: when query_finviz fails the run has raised and is over, no call of
\* fetch_metrics was made, and neither file is written.
C6_ListingFailureStopsRun ==
    exc = "query_finviz" =>
        /\ pc = "raised"
        /\ ~ENABLED Next
        /\ calls = <<>>
        /\ csv = NotWritten
        /\ xlsx = NotWritten

\* query_finviz has failed
C6_Witness ==
    /\ pc = "raised"
    /\ exc = "query_finviz"
    /\ calls = <<>>

\* C7: the calls made so far are for the first tickers of the list, one per
\* element and in its order; the list of records is the records these calls
\* returned, in the order of the calls; past the loop every element has had
\* its call.
C7_OneCallPerElementInOrder ==
    LET Records(upto) == SelectSeq([i \in 1..upto |-> calls[i].result],
                                   LAMBDA m : m.kind = "record")
    IN  /\ Len(calls) <= Len(tickers)
        /\ \A i \in 1..Len(calls) : calls[i].ticker = tickers[i]
        /\ pc = "loop" => pos = Len(calls) + 1
        /\ pc \in {"to_csv", "to_excel", "print", "done"} => Len(calls) = Len(tickers)
        /\ Len(rows) = Len(Records(Len(calls)))
        /\ \A j \in 1..Len(rows) : rows[j] = Records(Len(calls))[j].rec

\* the loop is over for a list that names one ticker twice, and there are
\* two rows for it, the first from the first call
C7_Witness ==
    /\ pc = "to_csv"
    /\ tickers = <<"BBB", "BBB">>
    /\ Len(rows) = 2
    /\ rows[1].Ticker = "BBB"
    /\ rows[2].Ticker = "BBB"
    /\ calls[1].raw = Base
    /\ calls[2].raw = [Base EXCEPT !.revs = <<100, 110, 118>>]
    /\ rows[1] = calls[1].result.rec
    /\ rows[2] = calls[2].result.rec

C9_CagrUndefinedOrAtThreshold ==
    \A i \in 1..Len(calls) :
        calls[i].result.kind = "record" =>
            LET revs == calls[i].raw.revs
                nis  == calls[i].raw.nis
                r0   == revs[Len(revs) - 2]
                r2   == revs[Len(revs)]
                n0   == nis[Len(nis) - 2]
                rec  == calls[i].result.rec
            IN  /\ r0 <= 0 => rec.RevCAGR_3y.k = "nan"
                /\ n0 = 0 => rec.NICAGR_3y.k = "nan"
                /\ r0 > 0 => ((/\ rec.RevCAGR_3y.k # "nan"
                               /\ FCmp(rec.RevCAGR_3y, FromInt(20)) >= 0)
                                 <=> 100 * r2 >= 144 * r0)

\* C10: in every record, the sign change is true exactly when net income
\* y0 < 0 and y2 > 0.
C10_SignChangeIffEndpoints ==
    \A i \in 1..Len(calls) :
        calls[i].result.kind = "record" =>
            LET nis == calls[i].raw.nis
            IN  calls[i].result.rec.NI_sign_change
                    <=> (nis[Len(nis) - 2] < 0 /\ nis[Len(nis)] > 0)

\* two records whose net income differs in the middle year alone, from a
\* loss to a profit, both with the sign change
C10_Witness ==
    /\ Len(calls) = 2
    /\ calls[1].raw = Base
    /\ calls[2].raw = [Base EXCEPT !.nis = <<-10, 7, 5>>]
    /\ calls[1].result.kind = "record"
    /\ calls[2].result.kind = "record"
    /\ calls[1].result.rec.NI_sign_change
    /\ calls[2].result.rec.NI_sign_change

====
